---- MODULE Spec2Model ----
(***************************************************************************)
(* rlox: scanner -> recursive-descent parser -> tree-walking interpreter   *)
(* over a stack of scopes.                                                 *)
(*                                                                         *)
(* Three specifications share the variables below:                         *)
(*   SpecScan  Scanner::scan_tokens, one scan_token call per step, on      *)
(*             every source text over ScanAlphabet up to MaxSrcLen chars.  *)
(*   SpecRun   one Lox::run call on a fresh Lox (scan, parse, all_parsed,  *)
(*             execute loop), on every source text made of at most         *)
(*             MaxPieces pieces of RunPieces; Parser::parse_expression is  *)
(*             the second entry point.                                     *)
(*   SpecExpr  scan_tokens, parse_expression and evaluate on one           *)
(*             expression text, as the repository's expression tests do.  *)
(*   Spec      the Interpreter and its Environment over any number of run  *)
(*             calls, the statements handed to execute drawn one by one.   *)
(*                                                                         *)
(* Source text is a sequence of one-character strings; a lexeme is such a  *)
(* sequence too.  Option<T> is <<>> (None) or <<x>> (Some(x)).             *)
(***************************************************************************)
EXTENDS Integers, Sequences, FiniteSets, TLC

VARIABLES
    pc,          \* position of the modelled entry point
    scanner,     \* Scanner {source_code, start, current, line}
    tokens,      \* the Vec<Token> scan_tokens builds and returns
    parser,      \* Parser {tokens, current}
    statements,  \* the Vec<Stmt> parse builds; run's stmts
    frames,      \* active statement loops: run's loop and one per Block
    scopes,      \* Interpreter.environment.scopes
    output,      \* what was written to Interpreter.output, one entry per line
    result       \* what the entry point returned

vars == <<pc, scanner, tokens, parser, statements, frames, scopes, output, result>>

None == <<>>
Some(x) == <<x>>

\* F at the value of x: `let v = x; F(v)`, x evaluated once
Bind(x, F(_)) == CHOOSE r \in {F(v) : v \in {x}} : TRUE

(***************************************************************************)
(* Bounds                                                                  *)
(***************************************************************************)
MaxSrcLen == 3

SeqsUpTo(S, n) == UNION {[1..k -> S] : k \in 0..n}

(***************************************************************************)
(* token.rs                                                                *)
(***************************************************************************)
Token(type, lexeme, line) == [type |-> type, lexeme |-> lexeme, line |-> line]

(***************************************************************************)
(* scanner.rs                                                              *)
(***************************************************************************)
Lower == {"a","b","c","d","e","f","g","h","i","j","k","l","m",
          "n","o","p","q","r","s","t","u","v","w","x","y","z"}
Upper == {"A","B","C","D","E","F","G","H","I","J","K","L","M",
          "N","O","P","Q","R","S","T","U","V","W","X","Y","Z"}
Digits == {"0","1","2","3","4","5","6","7","8","9"}

\* mutant: the underscore is sent to identifier() as well
IsLetterOrUnderscore(ch) == ch \in Lower \cup Upper \cup {"_"}

\* 'A'..='Z' | 'a'..='z'
IsLetter(ch) == ch \in Lower \cup Upper
\* '0'..='9'
IsDigit(ch) == ch \in Digits
\* char::is_numeric, on the characters the model feeds the scanner
IsNumeric(ch) == ch \in Digits
\* char::is_alphanumeric, on the characters the model feeds the scanner
IsAlphanumeric(ch) == ch \in Lower \cup Upper \cup Digits

ScannerNew(source_code) ==
    [source_code |-> source_code, start |-> 0, current |-> 0, line |-> 1]

\* source_code.chars().nth(i)
CharAt(source_code, i) ==
    IF i < Len(source_code) THEN Some(source_code[i + 1]) ELSE None

SingleChars == {"(", ")", "{", "}", ",", ".", "-", "+", ";", "*", "/"}

SingleCharType(ch) ==
    CASE ch = "(" -> "LeftParen"
      [] ch = "{" -> "LeftBrace"
      [] ch = "}" -> "RightBrace"
      [] ch = ")" -> "RightParen"
      [] ch = "," -> "Comma"
      [] ch = "." -> "Dot"
      [] ch = "-" -> "Minus"
      [] ch = "+" -> "Plus"
      [] ch = ";" -> "Semicolon"
      [] ch = "*" -> "Star"
      [] ch = "/" -> "Slash"

OneOrTwoChars == {"!", "=", ">", "<"}

OneCharType(ch) ==
    CASE ch = "!" -> "Bang"
      [] ch = "=" -> "Equal"
      [] ch = ">" -> "Greater"
      [] ch = "<" -> "Less"

TwoCharType(ch) ==
    CASE ch = "!" -> "BangEqual"
      [] ch = "=" -> "EqualEqual"
      [] ch = ">" -> "GreaterEqual"
      [] ch = "<" -> "LessEqual"

Keywords ==
    { <<"And",    <<"a","n","d">> >>,
      <<"Class",  <<"c","l","a","s","s">> >>,
      <<"Else",   <<"e","l","s","e">> >>,
      <<"False",  <<"f","a","l","s","e">> >>,
      <<"For",    <<"f","o","r">> >>,
      <<"Func",   <<"f","u","n","c">> >>,
      <<"If",     <<"i","f">> >>,
      <<"Nil",    <<"n","i","l">> >>,
      <<"Or",     <<"o","r">> >>,
      <<"Print",  <<"p","r","i","n","t">> >>,
      <<"Return", <<"r","e","t","u","r","n">> >>,
      <<"Super",  <<"s","u","p","e","r">> >>,
      <<"This",   <<"t","h","i","s">> >>,
      <<"True",   <<"t","r","u","e">> >>,
      <<"Var",    <<"v","a","r">> >>,
      <<"While",  <<"w","h","i","l","e">> >> }

preserved_word(token, line) ==
    IF \E kw \in Keywords : kw[2] = token
    THEN Some(Token((CHOOSE kw \in Keywords : kw[2] = token)[1], token, line))
    ELSE None

\* the while-let loop of Scanner::identifier: [current, token]
RECURSIVE IdentifierLoop(_, _, _)
IdentifierLoop(source_code, current, token) ==
    LET c == CharAt(source_code, current) IN
    IF c # None /\ IsAlphanumeric(c[1])
    THEN IdentifierLoop(source_code, current + 1, Append(token, c[1]))
    ELSE [current |-> current, token |-> token]

identifier(sc) ==
    LET r == IdentifierLoop(sc.source_code, sc.current, <<>>)
        preserved == preserved_word(r.token, sc.line)
    IN  [token |-> IF preserved # None THEN preserved[1]
                   ELSE Token("Identifier", r.token, sc.line),
         scanner |-> [sc EXCEPT !.current = r.current]]

\* the while-let loop of Scanner::number: [current, token]
RECURSIVE NumberLoop(_, _, _, _)
NumberLoop(source_code, current, token, dot_consumed) ==
    LET c == CharAt(source_code, current) IN
    IF c = None THEN [current |-> current, token |-> token]
    ELSE IF IsNumeric(c[1])
         THEN NumberLoop(source_code, current + 1, Append(token, c[1]), dot_consumed)
    ELSE IF c[1] = "." /\ ~dot_consumed
         THEN NumberLoop(source_code, current + 1, Append(token, c[1]), TRUE)
    ELSE [current |-> current, token |-> token]

number(sc) ==
    LET r == NumberLoop(sc.source_code, sc.current, <<>>, FALSE)
    IN  [token |-> Token("Number", r.token, sc.line),
         scanner |-> [sc EXCEPT !.current = r.current]]

\* the while-let loop of Scanner::string: [current, line, token]
RECURSIVE StringLoop(_, _, _, _)
StringLoop(source_code, current, line, token) ==
    LET c == CharAt(source_code, current) IN
    IF c = None THEN [current |-> current, line |-> line, token |-> token]
    ELSE LET line1  == IF c[1] = "\n" THEN line + 1 ELSE line
             token1 == IF c[1] # "\n" /\ c[1] # "\"" THEN Append(token, c[1]) ELSE token
         IN  IF c[1] = "\""
             THEN [current |-> current + 1, line |-> line1, token |-> token1]
             ELSE StringLoop(source_code, current + 1, line1, token1)

string(sc) ==
    LET r == StringLoop(sc.source_code, sc.current + 1, sc.line, <<>>)
    IN  [token |-> Token("String", r.token, r.line),
         scanner |-> [sc EXCEPT !.current = r.current, !.line = r.line]]

\* Scanner::scan_token: [token |-> Option<Token>, scanner |-> the scanner after]
scan_token(sc0) ==
    LET sc == [sc0 EXCEPT !.start = sc0.current]
        c  == CharAt(sc.source_code, sc.current)
        ch == c[1]
        one == [sc EXCEPT !.current = sc.current + 1]
        two == [sc EXCEPT !.current = sc.current + 2]
    IN
    IF c = None THEN [token |-> None, scanner |-> sc]
    ELSE IF ch \in SingleChars
         THEN [token |-> Some(Token(SingleCharType(ch), <<ch>>, sc.line)), scanner |-> one]
    ELSE IF ch \in OneOrTwoChars
         THEN IF CharAt(sc.source_code, sc.current + 1) = Some("=")
              THEN [token |-> Some(Token(TwoCharType(ch), <<ch, "=">>, sc.line)),
                    scanner |-> two]
              ELSE [token |-> Some(Token(OneCharType(ch), <<ch>>, sc.line)),
                    scanner |-> one]
    ELSE IF ch = "\n"
         THEN [token |-> Some(Token("Blank", <<ch>>, sc.line)),
               scanner |-> [one EXCEPT !.line = sc.line + 1]]
    ELSE IF ch \in {" ", "\t", "\r"}
         THEN [token |-> Some(Token("Blank", <<ch>>, sc.line)), scanner |-> one]
    ELSE IF IsLetter(ch)
         THEN LET r == identifier(sc) IN [token |-> Some(r.token), scanner |-> r.scanner]
    ELSE IF IsDigit(ch)
         THEN LET r == number(sc) IN [token |-> Some(r.token), scanner |-> r.scanner]
    ELSE IF ch = "\""
         THEN LET r == string(sc) IN [token |-> Some(r.token), scanner |-> r.scanner]
    ELSE [token |-> Some(Token("Invalid", <<ch>>, sc.line)), scanner |-> one]

\* mutant: only Blank tokens are dropped
PushScannedKeepInvalid(toks, token) ==
    IF token.type = "Blank" THEN toks ELSE Append(toks, token)

\* the match of scan_tokens on the token scan_token returned
PushScanned(toks, token) ==
    IF token.type \in {"Invalid", "Blank"} THEN toks ELSE Append(toks, token)

\* Scanner::scan_tokens, run to its end: the returned Vec<Token>
RECURSIVE ScanLoop(_, _)
ScanLoop(sc, toks) ==
    Bind(scan_token(sc), LAMBDA r :
        IF r.token = None
        THEN Append(toks, Token("Eof", <<>>, r.scanner.line))
        ELSE Bind(PushScanned(toks, r.token[1]), LAMBDA pushed :
                 ScanLoop(r.scanner, pushed)))

scan_tokens(source_code) == ScanLoop(ScannerNew(source_code), <<>>)

(***************************************************************************)
(* expression.rs, statement.rs: the syntax tree                            *)
(***************************************************************************)
BinaryExpr(left, operator, right) ==
    [kind |-> "Binary", left |-> left, operator |-> operator, right |-> right]
UnaryExpr(operator, expression) ==
    [kind |-> "Unary", operator |-> operator, expression |-> expression]
GroupingExpr(expression) == [kind |-> "Grouping", expression |-> expression]
LiteralExpr(token) == [kind |-> "Literal", token |-> token]
VariableExpr(var) == [kind |-> "Variable", var |-> var]
AssignExpr(lvar, value) == [kind |-> "Assign", lvar |-> lvar, value |-> value]

VarDecStmt(var_name, initializer) ==
    [kind |-> "Var", var_name |-> var_name, initializer |-> initializer]
PrintStmt(expr) == [kind |-> "Print", expr |-> expr]
ExprStmt(expr) == [kind |-> "Expr", expr |-> expr]
Block(stmts) == [kind |-> "Block", stmts |-> stmts]

(***************************************************************************)
(* parser.rs.  A parsing method is an operator from the Parser before the  *)
(* call to [status, value, parser]: "Ok" with the parsed node, "Err" for a *)
(* returned ParseError, "Panic" for unreachable!() and unwrap() on Err;    *)
(* parser is the Parser after the call.                                    *)
(***************************************************************************)
POk(value, p) == [status |-> "Ok", value |-> value, parser |-> p]
PErr(p) == [status |-> "Err", value |-> None, parser |-> p]
PPanic(p) == [status |-> "Panic", value |-> None, parser |-> p]

ParserNew(toks) == [tokens |-> toks, current |-> 0]

\* self.tokens.get(self.current - 1).unwrap(): only called with current >= 1
previous(p) == p.tokens[p.current]
peek(p) == p.tokens[p.current + 1]
is_at_end(p) == peek(p).type = "Eof"
advance(p) == IF ~is_at_end(p) THEN [p EXCEPT !.current = p.current + 1] ELSE p
check(p, token_type) == IF is_at_end(p) THEN FALSE ELSE peek(p).type = token_type

\* [matched, parser]
token_type_match(p, types) ==
    IF \E t \in types : check(p, t)
    THEN [matched |-> TRUE, parser |-> advance(p)]
    ELSE [matched |-> FALSE, parser |-> p]

consume(p, token_type) ==
    IF check(p, token_type)
    THEN POk(previous(advance(p)), advance(p))
    ELSE PErr(p)

\* mutant: the cursor is compared with tokens.len()
all_parsed_len(p) == p.current = Len(p.tokens)

all_parsed(p) == p.current = Len(p.tokens) - 1

RECURSIVE declaration(_), BlockLoop(_, _), statement(_), expression(_),
          assignment(_), equality(_), EqualityLoop(_, _), comparison(_),
          ComparisonLoop(_, _), term(_), TermLoop(_, _), factor(_),
          FactorLoop(_, _), unary(_), primary(_)

\* the while loop of Parser::block and what follows it
BlockLoop(p, stmts) ==
    IF ~check(p, "RightBrace") /\ ~is_at_end(p)
    THEN Bind(declaration(p), LAMBDA d :
             IF d.status = "Ok" THEN BlockLoop(d.parser, Append(stmts, d.value))
             ELSE d)
    ELSE \* the Result of consume is dropped
         POk(Block(stmts), consume(p, "RightBrace").parser)

block(p) == BlockLoop(p, <<>>)

var_declaration(p) ==
    LET name == consume(p, "Identifier") IN
    IF name.status # "Ok" THEN name
    ELSE LET var_name == name.value.lexeme
             m == token_type_match(name.parser, {"Equal"})
         IN  IF m.matched
             THEN Bind(expression(m.parser), LAMBDA e :
                      IF e.status # "Ok" THEN e
                      ELSE LET semi == consume(e.parser, "Semicolon") IN
                           IF semi.status # "Ok" THEN semi
                           ELSE POk(VarDecStmt(var_name, Some(e.value)), semi.parser))
             ELSE POk(VarDecStmt(var_name, None), m.parser)

declaration(p) ==
    LET m == token_type_match(p, {"Var"}) IN
    IF m.matched THEN var_declaration(m.parser) ELSE statement(p)

print_stmt(p) ==
    Bind(expression(p), LAMBDA e :
        IF e.status # "Ok" THEN e
        ELSE LET semi == consume(e.parser, "Semicolon") IN
             IF semi.status # "Ok" THEN semi
             ELSE POk(PrintStmt(e.value), semi.parser))

expr_stmt(p) ==
    Bind(expression(p), LAMBDA e :
        IF e.status # "Ok" THEN e
        ELSE LET semi == consume(e.parser, "Semicolon") IN
             IF semi.status # "Ok" THEN semi
             ELSE POk(ExprStmt(e.value), semi.parser))

statement(p) ==
    LET pr == token_type_match(p, {"Print"})
        lb == token_type_match(p, {"LeftBrace"})
    IN  IF pr.matched THEN print_stmt(pr.parser)
        ELSE IF lb.matched THEN block(lb.parser)
        ELSE expr_stmt(p)

expression(p) == assignment(p)

\* assignment that takes any left side and returns the value's tree for it
assignment_any_target(p) ==
    Bind(equality(p), LAMBDA expr :
        IF expr.status # "Ok" THEN expr
        ELSE LET m == token_type_match(expr.parser, {"Equal"}) IN
             IF m.matched
             THEN Bind(assignment(m.parser), LAMBDA value :
                      IF value.status # "Ok" THEN value
                      ELSE IF expr.value.kind = "Variable"
                           THEN POk(AssignExpr(expr.value.var, value.value),
                                    value.parser)
                           ELSE value)
             ELSE expr)

assignment(p) ==
    Bind(equality(p), LAMBDA expr :
        IF expr.status # "Ok" THEN expr
        ELSE LET m == token_type_match(expr.parser, {"Equal"}) IN
             IF m.matched
             THEN Bind(assignment(m.parser), LAMBDA value :
                      IF value.status # "Ok" THEN value
                      ELSE IF expr.value.kind = "Variable"
                           THEN POk(AssignExpr(expr.value.var, value.value),
                                    value.parser)
                           ELSE PErr(value.parser))
             ELSE expr)

EqualityLoop(p, expr) ==
    LET m == token_type_match(p, {"BangEqual", "EqualEqual"}) IN
    IF m.matched
    THEN Bind(comparison(m.parser), LAMBDA right :
             IF right.status # "Ok" THEN right
             ELSE EqualityLoop(right.parser,
                               BinaryExpr(expr, previous(m.parser), right.value)))
    ELSE POk(expr, p)

equality(p) ==
    Bind(comparison(p), LAMBDA expr :
        IF expr.status # "Ok" THEN expr ELSE EqualityLoop(expr.parser, expr.value))

ComparisonLoop(p, expr) ==
    LET m == token_type_match(p, {"Greater", "GreaterEqual", "Less", "LessEqual"}) IN
    IF m.matched
    THEN Bind(term(m.parser), LAMBDA right :
             IF right.status # "Ok" THEN right
             ELSE ComparisonLoop(right.parser,
                                 BinaryExpr(expr, previous(m.parser), right.value)))
    ELSE POk(expr, p)

comparison(p) ==
    Bind(term(p), LAMBDA expr :
        IF expr.status # "Ok" THEN expr ELSE ComparisonLoop(expr.parser, expr.value))

\* term with its right operand parsed as a term: the level nests to the right
TermLoopRight(p, expr) ==
    LET m == token_type_match(p, {"Minus", "Plus"}) IN
    IF m.matched
    THEN Bind(term(m.parser), LAMBDA right :
             IF right.status # "Ok" THEN right
             ELSE POk(BinaryExpr(expr, previous(m.parser), right.value),
                      right.parser))
    ELSE POk(expr, p)

TermLoop(p, expr) ==
    LET m == token_type_match(p, {"Minus", "Plus"}) IN
    IF m.matched
    THEN Bind(factor(m.parser), LAMBDA right :
             IF right.status # "Ok" THEN right
             ELSE TermLoop(right.parser,
                           BinaryExpr(expr, previous(m.parser), right.value)))
    ELSE POk(expr, p)

term(p) ==
    Bind(factor(p), LAMBDA expr :
        IF expr.status # "Ok" THEN expr ELSE TermLoop(expr.parser, expr.value))

FactorLoop(p, expr) ==
    LET m == token_type_match(p, {"Slash", "Star"}) IN
    IF m.matched
    THEN Bind(unary(m.parser), LAMBDA right :
             IF right.status # "Ok" THEN right
             ELSE FactorLoop(right.parser,
                             BinaryExpr(expr, previous(m.parser), right.value)))
    ELSE POk(expr, p)

factor(p) ==
    Bind(unary(p), LAMBDA expr :
        IF expr.status # "Ok" THEN expr ELSE FactorLoop(expr.parser, expr.value))

unary(p) ==
    LET m == token_type_match(p, {"Bang", "Minus"}) IN
    IF m.matched
    THEN Bind(unary(m.parser), LAMBDA right :
             IF right.status # "Ok" THEN right
             ELSE POk(UnaryExpr(previous(m.parser), right.value), right.parser))
    ELSE primary(p)

primary(p) ==
    LET lit == token_type_match(p, {"False", "True", "Nil", "Number", "String"})
        lp  == token_type_match(p, {"LeftParen"})
        id  == token_type_match(p, {"Identifier"})
    IN  IF lit.matched THEN POk(LiteralExpr(previous(lit.parser)), lit.parser)
        ELSE IF lp.matched
             THEN Bind(expression(lp.parser), LAMBDA expr :
                      IF expr.status # "Ok" THEN expr
                      ELSE LET rp == consume(expr.parser, "RightParen") IN
                           \* .unwrap()
                           IF rp.status # "Ok" THEN PPanic(rp.parser)
                           ELSE POk(GroupingExpr(expr.value), rp.parser))
        ELSE IF id.matched THEN POk(VariableExpr(previous(id.parser)), id.parser)
        ELSE \* unreachable!()
             PPanic(p)

parse_expression(p) == expression(p)

SyncStart == {"Class", "Func", "Var", "For", "If", "While", "Print", "Return"}

\* the while loop of Parser::synchronize
RECURSIVE SynchronizeLoop(_)
SynchronizeLoop(p) ==
    IF is_at_end(p) THEN p
    ELSE IF previous(p).type = "Semicolon" THEN p
    ELSE IF peek(p).type \in SyncStart THEN p
    ELSE SynchronizeLoop(advance(p))

\* synchronize without its first advance
synchronize_no_advance(p) == SynchronizeLoop(p)

\* synchronize that puts the cursor back on the first token
synchronize_restart(p) == [p EXCEPT !.current = 0]

synchronize(p) == SynchronizeLoop(advance(p))

\* Parser::parse, run to its end: [status, value |-> statements, parser]
RECURSIVE ParseLoop(_, _)
ParseLoop(p, stmts) ==
    IF ~is_at_end(p)
    THEN Bind(declaration(p), LAMBDA d :
             IF d.status = "Ok" THEN ParseLoop(d.parser, Append(stmts, d.value))
             ELSE IF d.status = "Err"
                  THEN Bind(synchronize(d.parser), LAMBDA synced :
                           ParseLoop(synced, stmts))
             ELSE d)
    ELSE POk(stmts, p)

parse(p) == ParseLoop(p, <<>>)

(***************************************************************************)
(* expression.rs: LiteralValue.  Num(f64) is modelled as the exact         *)
(* fraction n/d in lowest terms, d > 0.                                    *)
(***************************************************************************)
RECURSIVE Gcd(_, _)
Gcd(a, b) == IF b = 0 THEN a ELSE Gcd(b, a % b)
Abs(n) == IF n < 0 THEN -n ELSE n

\* LiteralValue::Num of the fraction n/d, d # 0
Num(n, d) ==
    LET g == Gcd(Abs(n), Abs(d))
        s == IF d < 0 THEN -1 ELSE 1
    IN  [t |-> "Num", n |-> (s * n) \div g, d |-> (s * d) \div g]
Str(s) == [t |-> "Str", s |-> s]
Bool(b) == [t |-> "Bool", b |-> b]
Nil == [t |-> "Nil"]

DigitValue(ch) ==
    CASE ch = "0" -> 0 [] ch = "1" -> 1 [] ch = "2" -> 2 [] ch = "3" -> 3
      [] ch = "4" -> 4 [] ch = "5" -> 5 [] ch = "6" -> 6 [] ch = "7" -> 7
      [] ch = "8" -> 8 [] ch = "9" -> 9

DigitChar(n) ==
    CASE n = 0 -> "0" [] n = 1 -> "1" [] n = 2 -> "2" [] n = 3 -> "3"
      [] n = 4 -> "4" [] n = 5 -> "5" [] n = 6 -> "6" [] n = 7 -> "7"
      [] n = 8 -> "8" [] n = 9 -> "9"

\* digits read left to right: [n, d] with the value n/d
RECURSIVE ParseDigits(_, _, _, _, _)
ParseDigits(lexeme, i, n, d, after_dot) ==
    IF i > Len(lexeme) THEN [n |-> n, d |-> d]
    ELSE IF lexeme[i] = "." THEN ParseDigits(lexeme, i + 1, n, d, TRUE)
    ELSE ParseDigits(lexeme, i + 1, 10 * n + DigitValue(lexeme[i]),
                     IF after_dot THEN 10 * d ELSE d, after_dot)

\* lexeme.parse::<f64>(): Option<Num>, on the lexemes Scanner::number builds
ParseF64(lexeme) ==
    IF /\ Len(lexeme) > 0
       /\ \A i \in DOMAIN lexeme : lexeme[i] \in Digits \cup {"."}
       /\ Cardinality({i \in DOMAIN lexeme : lexeme[i] = "."}) <= 1
       /\ \E i \in DOMAIN lexeme : lexeme[i] \in Digits
    THEN LET r == ParseDigits(lexeme, 1, 0, 1, FALSE) IN Some(Num(r.n, r.d))
    ELSE None

\* the decimal digits of a natural number
RECURSIVE NatDigits(_)
NatDigits(n) ==
    IF n < 10 THEN <<DigitChar(n)>> ELSE Append(NatDigits(n \div 10), DigitChar(n % 10))

\* the digits after the decimal point of r/d, 0 <= r < d
RECURSIVE FracDigits(_, _, _)
FracDigits(r, d, left) ==
    IF r = 0 \/ left = 0 THEN <<>>
    ELSE <<DigitChar((10 * r) \div d)>> \o FracDigits((10 * r) % d, d, left - 1)

\* impl Display for LiteralValue: the text of one printed value
Display(v) ==
    CASE v.t = "Num" ->
           LET a == Abs(v.n)
               whole == NatDigits(a \div v.d)
               frac == FracDigits(a % v.d, v.d, 17)
           IN  (IF v.n < 0 THEN <<"-">> ELSE <<>>) \o whole
               \o (IF frac = <<>> THEN <<>> ELSE <<".">> \o frac)
      [] v.t = "Str" -> v.s
      [] v.t = "Bool" -> IF v.b THEN <<"t","r","u","e">> ELSE <<"f","a","l","s","e">>
      [] v.t = "Nil" -> <<"n","i","l">>

\* LiteralExpr::get_literal_value: Option<LiteralValue>, None where it panics
get_literal_value(token) ==
    CASE token.type = "String" -> Some(Str(token.lexeme))
      [] token.type = "Number" -> ParseF64(token.lexeme)
      [] token.type = "True" -> Some(Bool(TRUE))
      [] token.type = "False" -> Some(Bool(FALSE))
      [] OTHER -> None

\* impl to_string for Expr and its variants: the text as a character sequence
RECURSIVE to_string(_)
to_string(e) ==
    CASE e.kind = "Binary" ->
           <<"(">> \o e.operator.lexeme \o <<" ">> \o to_string(e.left)
           \o <<" ">> \o to_string(e.right) \o <<")">>
      [] e.kind = "Unary" ->
           <<"(">> \o e.operator.lexeme \o <<" ">> \o to_string(e.expression) \o <<")">>
      [] e.kind = "Grouping" ->
           <<"(","g","r","o","u","p","i","n","g"," ">> \o to_string(e.expression)
           \o <<")">>
      [] e.kind = "Literal" -> e.token.lexeme
      [] e.kind = "Variable" -> e.var.lexeme
      [] e.kind = "Assign" ->
           e.lvar.lexeme \o <<" ","="," ">> \o to_string(e.value)

(***************************************************************************)
(* environment.rs: scopes is the Vec<Scope>, a Scope the map of its values *)
(***************************************************************************)
ScopeNew == [name \in {} |-> Nil]

Insert(scope, name, value) ==
    [k \in DOMAIN scope \cup {name} |-> IF k = name THEN value ELSE scope[k]]

EnvironmentNew == <<ScopeNew>>

\* Environment::get: Option<LiteralValue>, None for the undefined-variable Err
RECURSIVE GetLoop(_, _, _)
GetLoop(scs, i, name) ==
    IF i = 0 THEN None
    ELSE IF name \in DOMAIN scs[i] THEN Some(scs[i][name])
    ELSE GetLoop(scs, i - 1, name)

get(scs, name) == GetLoop(scs, Len(scs), name)

\* mutant: the name is inserted into the first scope of the Vec
define_first(scs, name, value) ==
    IF Len(scs) = 0 THEN None
    ELSE Some([scs EXCEPT ![1] = Insert(scs[1], name, value)])

\* Environment::define: Option<scopes>, None where expect() panics
define(scs, name, value) ==
    IF Len(scs) = 0 THEN None
    ELSE Some([scs EXCEPT ![Len(scs)] = Insert(scs[Len(scs)], name, value)])

\* Environment::assign: Option<scopes>, None for the undefined-variable Err
RECURSIVE AssignLoop(_, _, _, _)
AssignLoop(scs, i, name, value) ==
    IF i = 0 THEN None
    ELSE IF name \in DOMAIN scs[i]
         THEN Some([scs EXCEPT ![i] = Insert(scs[i], name, value)])
    ELSE AssignLoop(scs, i - 1, name, value)

\* mutant: a name no scope defines is inserted into the last scope
assign_or_define(scs, name, value) ==
    IF AssignLoop(scs, Len(scs), name.lexeme, value) = None
    THEN define(scs, name.lexeme, value)
    ELSE AssignLoop(scs, Len(scs), name.lexeme, value)

\* assign that overwrites the outermost scope that defines the name
assign_outermost(scs, name, value) ==
    IF \E i \in DOMAIN scs : name.lexeme \in DOMAIN scs[i]
    THEN LET k == CHOOSE i \in DOMAIN scs :
                     /\ name.lexeme \in DOMAIN scs[i]
                     /\ \A j \in 1..(i - 1) : name.lexeme \notin DOMAIN scs[j]
         IN  Some([scs EXCEPT ![k] = Insert(scs[k], name.lexeme, value)])
    ELSE None

assign(scs, name, value) == AssignLoop(scs, Len(scs), name.lexeme, value)

\* mutant: no Scope is pushed
create_scope_none(scs) == scs

create_scope(scs) == Append(scs, ScopeNew)

\* Vec::pop: nothing happens on an empty Vec
drop_scope(scs) == IF Len(scs) = 0 THEN scs ELSE SubSeq(scs, 1, Len(scs) - 1)

(***************************************************************************)
(* interpreter.rs.  evaluate is an operator from the expression and the    *)
(* scopes before the call to [status, value, err, scopes]: "Ok" with the   *)
(* value (evaluate never returns Ok(None)), "Err" with the RuntimeError,   *)
(* "Panic"; scopes are the scopes after the call.                          *)
(***************************************************************************)
EOk(value, scs) == [status |-> "Ok", value |-> value, err |-> "", scopes |-> scs]
EErr(err, scs) == [status |-> "Err", value |-> Nil, err |-> err, scopes |-> scs]
EPanic(scs) == [status |-> "Panic", value |-> Nil, err |-> "", scopes |-> scs]

UndefinedVariable == "Undefined variable"
DividedByZero == "Divided by zero is not allowed"
OperandMustBeNumber == "Operand must be number"
InvalidUnaryOperator == "Invalid unary operator"
CanNotBeInterpreted == "can not be interpreted"

\* truthiness with zero and the empty string true and Nil false
is_truthy_nil_false(v) ==
    IF v.t = "Nil" THEN FALSE
    ELSE IF v.t = "Bool" THEN v.b
    ELSE TRUE

is_truthy(v) ==
    IF v.t = "Num" /\ v.n = 0 THEN FALSE
    ELSE IF v.t = "Str" /\ v.s = <<>> THEN FALSE
    ELSE IF v.t = "Bool" THEN v.b
    ELSE TRUE

NumericOps == {"Plus", "Minus", "Slash", "Star", "EqualEqual", "BangEqual",
               "Greater", "GreaterEqual", "Less", "LessEqual"}

\* the inner match of the numeric arm of evaluate_binary
NumericOp(l, r, op_type) ==
    CASE op_type = "Plus" -> Num(l.n * r.d + r.n * l.d, l.d * r.d)
      [] op_type = "Minus" -> Num(l.n * r.d - r.n * l.d, l.d * r.d)
      [] op_type = "Slash" -> Num(l.n * r.d, l.d * r.n)
      [] op_type = "Star" -> Num(l.n * r.n, l.d * r.d)
      [] op_type = "EqualEqual" -> Bool(l.n * r.d = r.n * l.d)
      [] op_type = "BangEqual" -> Bool(l.n * r.d # r.n * l.d)
      [] op_type = "Greater" -> Bool(l.n * r.d > r.n * l.d)
      [] op_type = "GreaterEqual" -> Bool(l.n * r.d >= r.n * l.d)
      [] op_type = "Less" -> Bool(l.n * r.d < r.n * l.d)
      [] op_type = "LessEqual" -> Bool(l.n * r.d <= r.n * l.d)

\* the match with the zero divisor looked at for a Number on the left only
BinaryMatchZeroOfNumbers(left, right, op_type, scs) ==
    IF left.t = "Num" /\ right.t = "Num" /\ right.n = 0 /\ op_type = "Slash"
    THEN EErr(DividedByZero, scs)
    ELSE IF left.t = "Num" /\ right.t = "Num" /\ op_type \in NumericOps
    THEN EOk(NumericOp(left, right, op_type), scs)
    ELSE IF left.t = "Str" /\ right.t = "Str" /\ op_type = "Plus"
    THEN EOk(Str(left.s \o right.s), scs)
    ELSE EErr(CanNotBeInterpreted, scs)

\* the match with an arm that compares two strings under ==
BinaryMatchStringEquality(left, right, op_type, scs) ==
    IF right.t = "Num" /\ right.n = 0 /\ op_type = "Slash"
    THEN EErr(DividedByZero, scs)
    ELSE IF left.t = "Num" /\ right.t = "Num" /\ op_type \in NumericOps
    THEN EOk(NumericOp(left, right, op_type), scs)
    ELSE IF left.t = "Str" /\ right.t = "Str" /\ op_type = "Plus"
    THEN EOk(Str(left.s \o right.s), scs)
    ELSE IF left.t = "Str" /\ right.t = "Str" /\ op_type = "EqualEqual"
    THEN EOk(Bool(left.s = right.s), scs)
    ELSE EErr(CanNotBeInterpreted, scs)

\* the match of evaluate_binary on (left, right, op_type)
BinaryMatch(left, right, op_type, scs) ==
    IF right.t = "Num" /\ right.n = 0 /\ op_type = "Slash"
    THEN EErr(DividedByZero, scs)
    ELSE IF left.t = "Num" /\ right.t = "Num" /\ op_type \in NumericOps
    THEN EOk(NumericOp(left, right, op_type), scs)
    ELSE IF left.t = "Str" /\ right.t = "Str" /\ op_type = "Plus"
    THEN EOk(Str(left.s \o right.s), scs)
    ELSE EErr(CanNotBeInterpreted, scs)

RECURSIVE evaluate(_, _)

evaluate_unary(expr, scs) ==
    Bind(evaluate(expr.expression, scs), LAMBDA right :
        IF right.status # "Ok" THEN right
        ELSE IF expr.operator.type = "Minus"
             THEN IF right.value.t = "Num"
                  THEN EOk(Num(-right.value.n, right.value.d), right.scopes)
                  ELSE EErr(OperandMustBeNumber, right.scopes)
        ELSE IF expr.operator.type = "Bang"
             THEN EOk(Bool(~is_truthy(right.value)), right.scopes)
        ELSE EErr(InvalidUnaryOperator, right.scopes))

evaluate_binary(expr, scs) ==
    Bind(evaluate(expr.left, scs), LAMBDA left :
        IF left.status # "Ok" THEN left
        ELSE Bind(evaluate(expr.right, left.scopes), LAMBDA right :
                 IF right.status # "Ok" THEN right
                 ELSE BinaryMatch(left.value, right.value, expr.operator.type,
                                  right.scopes)))

evaluate(expr, scs) ==
    CASE expr.kind = "Binary" -> evaluate_binary(expr, scs)
      [] expr.kind = "Unary" -> evaluate_unary(expr, scs)
      [] expr.kind = "Grouping" -> evaluate(expr.expression, scs)
      [] expr.kind = "Literal" ->
           LET v == get_literal_value(expr.token) IN
           IF v = None THEN EPanic(scs) ELSE EOk(v[1], scs)
      [] expr.kind = "Variable" ->
           LET v == get(scs, expr.var.lexeme) IN
           IF v = None THEN EErr(UndefinedVariable, scs) ELSE EOk(v[1], scs)
      [] expr.kind = "Assign" ->
           Bind(evaluate(expr.value, scs), LAMBDA value :
               IF value.status # "Ok" THEN value
               ELSE LET a == assign(value.scopes, expr.lvar, value.value) IN
                    IF a = None THEN EErr(UndefinedVariable, value.scopes)
                    ELSE EOk(value.value, a[1]))

\* Interpreter::execute on a Print, Expr or Var statement:
\* [status, err, scopes, output] after the call
XOk(scs, out) == [status |-> "Ok", err |-> "", scopes |-> scs, output |-> out]
XFail(e, out) == [status |-> e.status, err |-> e.err, scopes |-> e.scopes, output |-> out]

execute(stmt, scs, out) ==
    CASE stmt.kind = "Print" ->
           Bind(evaluate(stmt.expr, scs), LAMBDA value :
               IF value.status # "Ok" THEN XFail(value, out)
               ELSE XOk(value.scopes, Append(out, Display(value.value))))
      [] stmt.kind = "Expr" ->
           Bind(evaluate(stmt.expr, scs), LAMBDA value :
               IF value.status # "Ok" THEN XFail(value, out)
               ELSE XOk(value.scopes, out))
      [] stmt.kind = "Var" ->
           IF stmt.initializer # None
           THEN Bind(evaluate(stmt.initializer[1], scs), LAMBDA lit_v :
                    IF lit_v.status # "Ok" THEN XFail(lit_v, out)
                    ELSE LET d == define(lit_v.scopes, stmt.var_name, lit_v.value) IN
                         IF d = None THEN XFail(EPanic(lit_v.scopes), out)
                         ELSE XOk(d[1], out))
           ELSE LET d == define(scs, stmt.var_name, Nil) IN
                IF d = None THEN XFail(EPanic(scs), out) ELSE XOk(d[1], out)

NoScanner == ScannerNew(<<>>)
NoParser == [tokens |-> <<>>, current |-> 0]

(***************************************************************************)
(* lox.rs: Lox::run, and the statement loops of Interpreter::execute.      *)
(* frames is the stack of active `for stmt in stmts` loops, run's loop at  *)
(* the bottom and one loop per Block being executed above it; a frame is   *)
(* [stmts, idx], idx the position of the statement executed next.          *)
(***************************************************************************)
NoResult == [status |-> "None", err |-> ""]
RunOk == [status |-> "Ok", err |-> ""]
RunParseError == [status |-> "ParseError", err |-> "not all token parsed"]
RunRuntimeError(err) == [status |-> "RuntimeError", err |-> err]
Panicked == [status |-> "Panic", err |-> ""]

Frame(stmts) == [stmts |-> stmts, idx |-> 1]
Top == frames[Len(frames)]
\* the loop of the innermost active execute/run has a statement left
HasStmt == Len(frames) > 0 /\ Top.idx <= Len(Top.stmts)
Stmt == Top.stmts[Top.idx]
\* mutant: the loop skips a statement
AdvancedByTwo(fs) == [fs EXCEPT ![Len(fs)].idx = fs[Len(fs)].idx + 2]

\* the innermost loop moves to its next statement
Advanced(fs) == [fs EXCEPT ![Len(fs)].idx = fs[Len(fs)].idx + 1]

\* Scanner::new(source).scan_tokens(); Parser::new(tokens)
Scan ==
    /\ pc = "start"
    /\ tokens' = scan_tokens(scanner.source_code)
    /\ parser' = ParserNew(tokens')
    /\ scanner' = [scanner EXCEPT !.start = Len(scanner.source_code),
                                   !.current = Len(scanner.source_code),
                                   !.line = tokens'[Len(tokens')].line]
    /\ pc' = "scanned"
    /\ UNCHANGED <<statements, frames, scopes, output, result>>

\* run calls parser.parse()
ParseStart ==
    /\ pc = "scanned"
    /\ pc' = "parse"
    /\ statements' = <<>>
    /\ UNCHANGED <<scanner, tokens, parser, frames, scopes, output, result>>

\* one iteration of parse's loop: the declaration() call and its Ok arm;
\* on Err the loop goes on to synchronize; a panic ends the process
ParseDeclaration ==
    /\ pc = "parse"
    /\ ~is_at_end(parser)
    /\ \E d \in {declaration(parser)} :
        /\ parser' = d.parser
        /\ statements' = IF d.status = "Ok" THEN Append(statements, d.value)
                         ELSE statements
        /\ pc' = CASE d.status = "Ok" -> "parse"
                   [] d.status = "Err" -> "synchronize"
                   [] d.status = "Panic" -> "aborted"
        /\ result' = IF d.status = "Panic" THEN Panicked ELSE result
    /\ UNCHANGED <<scanner, tokens, frames, scopes, output>>

\* the Err arm of parse's loop
ParseSynchronize ==
    /\ pc = "synchronize"
    /\ parser' = synchronize(parser)
    /\ pc' = "parse"
    /\ UNCHANGED <<scanner, tokens, statements, frames, scopes, output, result>>

\* parse's loop left after any iteration, wherever the cursor is
ParseEndEarly ==
    /\ pc = "parse"
    /\ parser.current > 0
    /\ pc' = "parsed"
    /\ UNCHANGED <<scanner, tokens, parser, statements, frames, scopes, output, result>>

\* parse's loop ends: Ok(statements)
ParseEnd ==
    /\ pc = "parse"
    /\ is_at_end(parser)
    /\ pc' = "parsed"
    /\ UNCHANGED <<scanner, tokens, parser, statements, frames, scopes, output, result>>

\* run after parse().unwrap(): the all_parsed check, then the statement loop
RunAllParsed ==
    /\ pc = "parsed"
    /\ IF ~all_parsed(parser)
       THEN /\ result' = RunParseError
            /\ pc' = "returned"
            /\ UNCHANGED frames
       ELSE /\ frames' = <<Frame(statements)>>
            /\ pc' = "exec"
            /\ UNCHANGED result
    /\ UNCHANGED <<scanner, tokens, parser, statements, scopes, output>>

\* the test entry point: parser.parse_expression() on the scanned tokens
ParseExpression ==
    /\ pc = "scanned"
    /\ \E e \in {parse_expression(parser)} :
        /\ parser' = e.parser
        /\ statements' = IF e.status = "Ok" THEN <<e.value>> ELSE <<>>
        /\ result' = [status |-> e.status, err |-> ""]
        /\ pc' = "expression"
    /\ UNCHANGED <<scanner, tokens, frames, scopes, output>>

\* execute on a Print, Expr or Var statement, called from run's loop or from
\* the loop of a Block; an Err leaves every active loop through `?` and run
\* returns it
ExecStatement ==
    /\ pc = "exec"
    /\ HasStmt
    /\ Stmt.kind # "Block"
    /\ \E x \in {execute(Stmt, scopes, output)} :
        /\ scopes' = x.scopes
        /\ output' = x.output
        /\ frames' = IF x.status = "Ok" THEN Advanced(frames) ELSE <<>>
        /\ pc' = CASE x.status = "Ok" -> "exec"
                   [] x.status = "Err" -> "returned"
                   [] x.status = "Panic" -> "aborted"
        /\ result' = CASE x.status = "Ok" -> result
                       [] x.status = "Err" -> RunRuntimeError(x.err)
                       [] x.status = "Panic" -> Panicked
    /\ UNCHANGED <<scanner, tokens, parser, statements>>

\* execute on a Block: create_scope, then the loop over its statements
ExecBlockEnter ==
    /\ pc = "exec"
    /\ HasStmt
    /\ Stmt.kind = "Block"
    /\ scopes' = create_scope(scopes)
    /\ frames' = Append(frames, Frame(Stmt.stmts))
    /\ UNCHANGED <<pc, scanner, tokens, parser, statements, output, result>>

\* the loop of a Block ends: drop_scope, Ok(()), back in the enclosing loop
ExecBlockExit ==
    /\ pc = "exec"
    /\ Len(frames) > 1
    /\ ~HasStmt
    /\ scopes' = drop_scope(scopes)
    /\ frames' = Advanced(SubSeq(frames, 1, Len(frames) - 1))
    /\ UNCHANGED <<pc, scanner, tokens, parser, statements, output, result>>

\* run's loop ends: Ok(())
RunReturn ==
    /\ pc = "exec"
    /\ Len(frames) = 1
    /\ ~HasStmt
    /\ pc' = "returned"
    /\ result' = RunOk
    /\ frames' = <<>>
    /\ UNCHANGED <<scanner, tokens, parser, statements, scopes, output>>

(***************************************************************************)
(* SpecRun: one run call, or one parse_expression call, on a fresh Lox     *)
(***************************************************************************)
MaxPieces == 3

RunPieces ==
    { <<"v","a","r"," ","a","=","1",";">>,
      <<"v","a","r"," ","a"," ">>,
      <<"p","r","i","n","t"," ","a",";">>,
      <<"p","r","i","n","t"," ","b",";">>,
      <<"{">>,
      <<"}">>,
      <<"1"," ">>,
      <<";">> }

RECURSIVE Flatten(_)
Flatten(ss) == IF ss = <<>> THEN <<>> ELSE Head(ss) \o Flatten(Tail(ss))

RunSources == {Flatten(ps) : ps \in SeqsUpTo(RunPieces, MaxPieces)}

\* Lox::new(output), and the source text handed to run
InitRun ==
    /\ pc = "start"
    /\ \E src \in RunSources : scanner = ScannerNew(src)
    /\ tokens = <<>>
    /\ parser = NoParser
    /\ statements = <<>>
    /\ frames = <<>>
    /\ scopes = EnvironmentNew
    /\ output = <<>>
    /\ result = NoResult

NextRun ==
    \/ Scan
    \/ ParseStart
    \/ ParseDeclaration
    \/ ParseSynchronize
    \/ ParseEnd
    \/ RunAllParsed
    \/ ParseExpression
    \/ ExecStatement
    \/ ExecBlockEnter
    \/ ExecBlockExit
    \/ RunReturn

SpecRun == InitRun /\ [][NextRun]_vars

(***************************************************************************)
(* Spec: run_prompt's loop, run after run on one Lox.  The statement list  *)
(* parse hands to run is any list: a frame holds the statement its loop    *)
(* has reached, and the list shows its next statement, or its end, when    *)
(* the loop gets there.  Names: a is declared by the programs, b never is. *)
(***************************************************************************)
MaxScopes == 3
MaxOutput == 1

Ident(name) == Token("Identifier", <<name>>, 1)
NumberLit(digit) == LiteralExpr(Token("Number", <<digit>>, 1))
OneByZero == BinaryExpr(NumberLit("1"), Token("Slash", <<"/">>, 1), NumberLit("0"))

AssignChoices ==
    { AssignExpr(Ident("a"), NumberLit("2")),
      AssignExpr(Ident("b"), NumberLit("2")),
      AssignExpr(Ident("b"), OneByZero) }

StmtChoices ==
    { VarDecStmt(<<"a">>, None),
      VarDecStmt(<<"a">>, Some(NumberLit("1"))),
      VarDecStmt(<<"a">>, Some(NumberLit("2"))),
      PrintStmt(VariableExpr(Ident("a"))),
      PrintStmt(VariableExpr(Ident("b"))),
      Block(<<>>) }
    \cup {ExprStmt(e) : e \in AssignChoices}

\* Lox::new(output)
Init ==
    /\ pc = "idle"
    /\ scanner = NoScanner
    /\ tokens = <<>>
    /\ parser = NoParser
    /\ statements = <<>>
    /\ frames = <<>>
    /\ scopes = EnvironmentNew
    /\ output = <<>>
    /\ result = NoResult

\* run that starts on a new Environment
RunNewEnvironment ==
    /\ pc \in {"idle", "returned"}
    /\ pc' = "exec"
    /\ frames' = <<Frame(<<>>)>>
    /\ result' = NoResult
    /\ scopes' = EnvironmentNew
    /\ UNCHANGED <<scanner, tokens, parser, statements, output>>

\* run_prompt calls run, run reaches its statement loop
Run ==
    /\ pc \in {"idle", "returned"}
    /\ pc' = "exec"
    /\ frames' = <<Frame(<<>>)>>
    /\ result' = NoResult
    /\ UNCHANGED <<scanner, tokens, parser, statements, scopes, output>>

\* the innermost loop has a next statement, s
Feed(s) ==
    /\ pc = "exec"
    /\ Len(frames) > 0
    /\ ~HasStmt
    /\ s.kind = "Block" => Len(scopes) < MaxScopes
    /\ s.kind = "Print" => Len(output) < MaxOutput
    /\ frames' = [frames EXCEPT ![Len(frames)] = Frame(<<s>>)]
    /\ UNCHANGED <<pc, scanner, tokens, parser, statements, scopes, output, result>>

Next ==
    \/ Run
    \/ \E s \in StmtChoices : Feed(s)
    \/ ExecStatement
    \/ ExecBlockEnter
    \/ ExecBlockExit
    \/ RunReturn

Spec == Init /\ [][Next]_vars

(***************************************************************************)
(* SpecExpr: the flow of the expression tests (lox.rs parse_single_expr,   *)
(* interpreter.rs test_evaluate_unary / test_evaluate_binary): scan_tokens,*)
(* parse_expression, then evaluate on the Interpreter, which is new or has *)
(* executed `var n;` (n bound to Nil).                                     *)
(***************************************************************************)
MaxExprLen == 5
MaxLeftLen == 3
MaxPrefix == 2

\* every text of at most MaxExprLen of these pieces
TreePieces == { <<"1">>, <<"-">>, <<"*">>, <<"(">>, <<")">> }
TreeSources == {Flatten(ps) : ps \in SeqsUpTo(TreePieces, MaxExprLen)}

BinaryOps ==
    { <<"+">>, <<"-">>, <<"*">>, <<"/">>, <<"=","=">>, <<"!","=">>,
      <<">">>, <<">","=">>, <<"<">>, <<"<","=">> }

\* 1 op 1 op 1, for every two binary operators
PairSources ==
    {<<"1">> \o op1 \o <<"2">> \o op2 \o <<"3">> : op1 \in BinaryOps, op2 \in BinaryOps}

\* the text parse_single_expr parses: -1 * (-3 + 4)
TestSource == <<"-","1"," ","*"," ","(","-","3"," ","+"," ","4",")">>

\* l = r, l every text of at most MaxLeftLen of LeftPieces
LeftPieces == { <<"a">>, <<"1">>, <<"(">>, <<")">>, <<"+">> }
LeftSides == {Flatten(ps) : ps \in SeqsUpTo(LeftPieces, MaxLeftLen)}
RightSides == { <<"1">>, <<"a","=","1">> }
AssignSources == {l \o <<"=">> \o r : l \in LeftSides, r \in RightSides}

\* operands: number, string, bool, nil literals and the variable n
EvalOperands ==
    { <<"1">>, <<"0">>, <<"\"","s","\"">>, <<"\"","\"">>,
      <<"t","r","u","e">>, <<"f","a","l","s","e">>, <<"n","i","l">>, <<"n">> }
Prefixes == {Flatten(ps) : ps \in SeqsUpTo({ <<"!">>, <<"-">> }, MaxPrefix)}
UnarySources == {pre \o v : pre \in Prefixes, v \in EvalOperands}
BinarySources ==
    {l \o <<" ">> \o op \o <<" ">> \o r :
        l \in EvalOperands, op \in BinaryOps, r \in EvalOperands}

ExprSources ==
    TreeSources \cup PairSources \cup {TestSource} \cup AssignSources
    \cup UnarySources \cup BinarySources

\* Scanner::new(input), Interpreter::new(stdout)
InitExpr ==
    /\ pc = "start"
    /\ \E src \in ExprSources : scanner = ScannerNew(src)
    /\ tokens = <<>>
    /\ parser = NoParser
    /\ statements = <<>>
    /\ frames = <<>>
    /\ scopes = EnvironmentNew
    /\ output = <<>>
    /\ result = NoResult

\* the interpreter executes `var n;` before the expression is handled; taken
\* only for a text that names n
DeclareN ==
    /\ pc = "start"
    /\ scopes = EnvironmentNew
    /\ \E i \in DOMAIN scan_tokens(scanner.source_code) :
          scan_tokens(scanner.source_code)[i] = Ident("n")
    /\ scopes' = execute(VarDecStmt(<<"n">>, None), scopes, output).scopes
    /\ UNCHANGED <<pc, scanner, tokens, parser, statements, frames, output, result>>

\* interpreter.evaluate(&expr) on the expression parse_expression returned;
\* result.value is the Option<LiteralValue> of an Ok, None for an Err
Evaluate ==
    /\ pc = "expression"
    /\ result.status = "Ok"
    /\ \E v \in {evaluate(statements[1], scopes)} :
        /\ scopes' = v.scopes
        /\ result' = [status |-> v.status, err |-> v.err,
                      value |-> IF v.status = "Ok" THEN Some(v.value) ELSE None]
    /\ pc' = "evaluated"
    /\ UNCHANGED <<scanner, tokens, parser, statements, frames, output>>

NextExpr ==
    \/ DeclareN
    \/ Scan
    \/ ParseExpression
    \/ Evaluate

SpecExpr == InitExpr /\ [][NextExpr]_vars

(***************************************************************************)
(* SpecScan: scan_tokens step by step                                      *)
(***************************************************************************)
ScanAlphabet == {"o", "r", "1", ".", "\"", "\n", " ", "@", "=", "_"}


InitScan ==
    /\ pc = "scan"
    /\ \E src \in SeqsUpTo(ScanAlphabet, MaxSrcLen) : scanner = ScannerNew(src)
    /\ tokens = <<>>
    /\ parser = NoParser
    /\ statements = <<>>
    /\ frames = <<>>
    /\ scopes = <<>>
    /\ output = <<>>
    /\ result = NoResult

\* one iteration of scan_tokens' loop: scan_token returned Some(token)
ScanStep ==
    /\ pc = "scan"
    /\ \E r \in {scan_token(scanner)} :
        /\ r.token # None
        /\ scanner' = r.scanner
        /\ tokens' = PushScanned(tokens, r.token[1])
    /\ UNCHANGED <<pc, parser, statements, frames, scopes, output, result>>

\* scan_token returned None: the loop ends, Eof is pushed, the Vec returned
ScanEnd ==
    /\ pc = "scan"
    /\ \E r \in {scan_token(scanner)} :
        /\ r.token = None
        /\ scanner' = r.scanner
        /\ tokens' = Append(tokens, Token("Eof", <<>>, r.scanner.line))
    /\ pc' = "scanned"
    /\ UNCHANGED <<parser, statements, frames, scopes, output, result>>

NextScan == ScanStep \/ ScanEnd

SpecScan == InitScan /\ [][NextScan]_vars

SpecScanFair == SpecScan /\ WF_vars(NextScan)

(***************************************************************************)
(* Claims about the scanner                                                *)
(***************************************************************************)
EofCount(toks) == Cardinality({i \in DOMAIN toks : toks[i].type = "Eof"})

\* C8: scan_tokens is total: on every source text each scan_token call that
\* returns a token moves the cursor forward by at least one character and
\* never past the end of the text, the loop ends, and the returned sequence
\* holds exactly one Eof token, its last element.
C8_ScanTotal ==
    /\ [][ScanStep => /\ scanner'.current > scanner.current
                      /\ scanner'.current <= Len(scanner.source_code)]_vars
    /\ [](pc = "scanned" => /\ Len(tokens) >= 1
                            /\ tokens[Len(tokens)].type = "Eof"
                            /\ EofCount(tokens) = 1)
    /\ <>(pc = "scanned")

\* an invalid character, then an unterminated string, scanned to the end
C8_Witness ==
    /\ pc = "scanned"
    /\ scanner.source_code = <<"@", "\"", "o">>
    /\ tokens = <<Token("String", <<"o">>, 1), Token("Eof", <<>>, 1)>>

StripLines(toks) == [i \in DOMAIN toks |-> [type |-> toks[i].type, lexeme |-> toks[i].lexeme]]
QuotesIn(s) == Cardinality({i \in DOMAIN s : s[i] = "\""})
\* the characters scan_token turns into a token that scan_tokens drops
IsDropped(ch) == scan_token(ScannerNew(<<ch>>)).token[1].type \in {"Invalid", "Blank"}
WithoutEof(toks) == SubSeq(toks, 1, Len(toks) - 1)

\* C9: the sequence scan_tokens builds never holds an Invalid or a Blank
\* token, and a dropped character outside a string neither stops nor
\* reorders the scan: the tokens of the whole text are the tokens of the text
\* before the character followed by the tokens of the text after it.
C9_NoInvalidNoBlank ==
    /\ \A i \in DOMAIN tokens : tokens[i].type \notin {"Invalid", "Blank"}
    /\ pc = "scanned" =>
         \A i \in DOMAIN scanner.source_code :
            LET src == scanner.source_code
                before == SubSeq(src, 1, i - 1)
                after == SubSeq(src, i + 1, Len(src))
            IN  (IsDropped(src[i]) /\ QuotesIn(before) % 2 = 0) =>
                   StripLines(tokens) =
                      StripLines(WithoutEof(scan_tokens(before)) \o scan_tokens(after))

\* an invalid character between two identifiers
C9_Witness ==
    /\ pc = "scanned"
    /\ scanner.source_code = <<"o", "@", "r">>
    /\ StripLines(tokens) = << [type |-> "Identifier", lexeme |-> <<"o">>],
                               [type |-> "Identifier", lexeme |-> <<"r">>],
                               [type |-> "Eof", lexeme |-> <<>>] >>

(***************************************************************************)
(* Environment and Interpreter properties, under Spec                      *)
(***************************************************************************)
NameA == <<"a">>
NameB == <<"b">>

\* execute on a Var statement returned Ok(())
VarDeclStep == ExecStatement /\ Stmt.kind = "Var" /\ pc' = "exec"
\* execute on an expression statement that is an assignment
AssignStep == ExecStatement /\ Stmt.kind = "Expr" /\ Stmt.expr.kind = "Assign"

\* C1: whenever a run call has returned, with Ok or with a RuntimeError, the
\* blocks it executed have restored the scope stack: only the global scope
\* is left.
C1_ScopesRestoredAfterRun == pc = "returned" => Len(scopes) = 1

\* C2: the scope stack always holds at least one scope; the stack only grows
\* and shrinks at its top, so its bottom element stays the scope made at
\* construction; the end of a Block never pops a stack of depth 1.
C2_GlobalScopeNeverDropped ==
    /\ [](Len(scopes) >= 1)
    /\ [][/\ Len(scopes') >= 1
          /\ \/ Len(scopes') = Len(scopes)
             \/ scopes' = Append(scopes, ScopeNew)
             \/ scopes' = SubSeq(scopes, 1, Len(scopes) - 1)
          /\ ExecBlockExit => Len(scopes) >= 2]_vars

\* run's loop is past a Block that ran to its end: its scope was popped and
\* the global scope, with the a declared in it, is what is left
C2_Witness ==
    /\ pc = "exec"
    /\ Len(frames) = 1
    /\ ~HasStmt
    /\ Top.stmts # <<>>
    /\ Top.stmts[1].kind = "Block"
    /\ Len(scopes) = 1
    /\ NameA \in DOMAIN scopes[1]

\* C3: a successful Var statement binds its name in the innermost scope
\* only, to the initializer's value (Nil without one), and a lookup then
\* yields that value; while a scope binds a name, no step changes what the
\* scopes below it bind to that name; and when a Block ends, a lookup yields
\* what the scopes below the block's scope bind.
C3_InnerDeclarationShadows ==
    /\ [][VarDeclStep =>
            LET top == Len(scopes)
                x == Stmt.var_name
                v == IF Stmt.initializer = None THEN Nil
                     ELSE evaluate(Stmt.initializer[1], scopes).value
            IN  /\ Len(scopes') = top
                /\ \A i \in 1..(top - 1) : scopes'[i] = scopes[i]
                /\ x \in DOMAIN scopes'[top]
                /\ scopes'[top][x] = v
                /\ get(scopes', x) = Some(v)]_vars
    /\ [][\A j \in 2..Len(scopes) : \A x \in DOMAIN scopes[j] :
            /\ Len(scopes') >= j - 1
            /\ \A i \in 1..(j - 1) :
                 x \in DOMAIN scopes[i] =>
                    x \in DOMAIN scopes'[i] /\ scopes'[i][x] = scopes[i][x]]_vars
    /\ [][ExecBlockExit =>
            \A x \in {NameA, NameB} :
               get(scopes', x) = GetLoop(scopes, Len(scopes) - 1, x)]_vars

\* inside a block, after its own declaration of a: the outer a is 1, the
\* inner a is 2, and a lookup yields 2
C3_Witness ==
    /\ pc = "exec"
    /\ Len(frames) = 2
    /\ Len(scopes) = 2
    /\ Top = [stmts |-> <<VarDecStmt(NameA, Some(NumberLit("2")))>>, idx |-> 2]
    /\ NameA \in DOMAIN scopes[1] /\ scopes[1][NameA] = Num(1, 1)
    /\ NameA \in DOMAIN scopes[2] /\ scopes[2][NameA] = Num(2, 1)
    /\ get(scopes, NameA) = Some(Num(2, 1))

\* C4 as stated: every assignment to a name that no scope defines fails
\* with the undefined-variable RuntimeError.
C4_UndefinedTargetAlwaysUndefinedVariable ==
    [][AssignStep /\ get(scopes, Stmt.expr.lvar.lexeme) = None =>
          /\ pc' = "returned"
          /\ result' = RunRuntimeError(UndefinedVariable)]_vars

\* C4: an assignment whose value expression evaluates to a value v fails
\* with the undefined-variable RuntimeError and leaves every scope as it was
\* when no scope defines the target; when one does, it succeeds, a lookup of
\* the target then yields v and no scope gains a name.  An assignment whose
\* value expression fails returns that failure and binds nothing.  Only a
\* successful Var statement adds a name to a scope, its innermost one.
C4_AssignNeedsDeclaration ==
    /\ [][AssignStep =>
            LET x == Stmt.expr.lvar.lexeme
                value == evaluate(Stmt.expr.value, scopes)
            IN  IF value.status # "Ok"
                THEN /\ pc' = "returned"
                     /\ result' = RunRuntimeError(value.err)
                     /\ scopes' = scopes
                ELSE IF get(scopes, x) = None
                THEN /\ pc' = "returned"
                     /\ result' = RunRuntimeError(UndefinedVariable)
                     /\ scopes' = scopes
                ELSE /\ pc' = "exec"
                     /\ get(scopes', x) = Some(value.value)
                     /\ Len(scopes') = Len(scopes)
                     /\ \A i \in DOMAIN scopes :
                          DOMAIN scopes'[i] = DOMAIN scopes[i]]_vars
    /\ [][\A i \in DOMAIN scopes \cap DOMAIN scopes' :
            DOMAIN scopes'[i] \subseteq DOMAIN scopes[i]
            \/ (VarDeclStep /\ i = Len(scopes))]_vars

\* `b = 2;` has just failed inside a block under a global a: the run
\* returned the undefined-variable error and no scope binds b
C4_Witness ==
    /\ pc = "returned"
    /\ result = RunRuntimeError(UndefinedVariable)
    /\ Len(scopes) = 2
    /\ NameA \in DOMAIN scopes[1] /\ scopes[1][NameA] = Num(2, 1)
    /\ \A i \in DOMAIN scopes : NameB \notin DOMAIN scopes[i]

(***************************************************************************)
(* run and the parser, under SpecRun                                       *)
(***************************************************************************)
WellFormedPieces ==
    { <<"v","a","r"," ","a","=","1",";">>,
      <<"p","r","i","n","t"," ","a",";">>,
      <<"p","r","i","n","t"," ","b",";">> }

\* a lone semicolon, an expression without its semicolon, a stray brace
MalformedPieces == { <<";">>, <<"1"," ">>, <<"}">> }

\* the statements parse returns for a source text
Parsed(source_code) == parse(ParserNew(scan_tokens(source_code))).value

\* C5: run's loop starts at the first parsed statement and moves one
\* statement at a time over the list parse returned; it returns Ok only past
\* the last statement, and otherwise at the first statement whose execute
\* fails, with that RuntimeError, output and scopes being what that execute
\* call left; output only ever grows at its end and no scope loses a name;
\* once run has returned, no statement loop is left.
C5_RunInOrderStopsAtFirstFailure ==
    /\ [][pc = "parsed" /\ pc' = "exec" => frames' = <<Frame(statements)>>]_vars
    /\ [][pc = "exec" /\ pc' = "exec" =>
            /\ frames'[1].stmts = statements
            /\ frames'[1].idx \in {frames[1].idx, frames[1].idx + 1}
            /\ frames'[1].idx = frames[1].idx + 1 => Len(frames') = 1]_vars
    /\ [][pc = "exec" /\ pc' = "returned" =>
            \/ /\ result' = RunOk
               /\ frames = <<[stmts |-> statements, idx |-> Len(statements) + 1]>>
               /\ scopes' = scopes
               /\ output' = output
            \/ /\ HasStmt
               /\ execute(Stmt, scopes, output).status = "Err"
               /\ result' = RunRuntimeError(execute(Stmt, scopes, output).err)
               /\ scopes' = execute(Stmt, scopes, output).scopes
               /\ output' = output]_vars
    /\ [][/\ Len(output') >= Len(output)
          /\ SubSeq(output', 1, Len(output)) = output
          /\ \A i \in DOMAIN scopes \cap DOMAIN scopes' :
               DOMAIN scopes[i] \subseteq DOMAIN scopes'[i]]_vars
    /\ [](pc = "returned" => frames = <<>>)

\* `var a=1;print a;print b;` has returned: the third statement failed, the
\* line the second printed and the binding the first made are in place
C5_Witness ==
    /\ pc = "returned"
    /\ Len(statements) = 3
    /\ result = RunRuntimeError(UndefinedVariable)
    /\ output = << <<"1">> >>
    /\ scopes = <<Insert(ScopeNew, NameA, Num(1, 1))>>

\* C6: on a program made of one malformed statement followed by well-formed
\* statements, run does not abort in parse, and the statement list parse
\* returns is the list of the well-formed statements.
C6_MalformedStatementSkipped ==
    \A m \in MalformedPieces :
      \A ws \in SeqsUpTo(WellFormedPieces, MaxPieces - 1) \ {<<>>} :
        scanner.source_code = m \o Flatten(ws) =>
           /\ pc # "aborted"
           /\ pc \in {"parsed", "exec", "returned"} =>
                statements = Parsed(Flatten(ws))

\* C7: once the parser holds the scanned tokens, all_parsed is true exactly
\* when the token under the cursor is Eof, which is exactly when no token
\* other than Eof lies at or after the cursor.
C7_AllParsedIffAtEof ==
    pc # "start" =>
       /\ all_parsed(parser) <=> peek(parser).type = "Eof"
       /\ all_parsed(parser) <=>
             ~ \E i \in DOMAIN parser.tokens :
                  i > parser.current /\ parser.tokens[i].type # "Eof"

\* parse_expression returned Ok in front of a trailing token
C7_Witness ==
    /\ pc = "expression"
    /\ result.status = "Ok"
    /\ scanner.source_code = <<"1", " ", "1", " ">>
    /\ parser.current = 1
    /\ ~all_parsed(parser)

\* C10: on `var a ;` followed by well-formed statements, run does not abort
\* in parse, the semicolon belongs to the declaration, so that the
\* statements parsed are the declaration and then the statements that
\* follow, and executing the declaration binds a to Nil.
C10_VarWithoutInitializer ==
    \A ws \in SeqsUpTo(WellFormedPieces, MaxPieces - 2) :
      scanner.source_code = <<"v","a","r"," ","a"," ",";">> \o Flatten(ws) =>
         /\ pc # "aborted"
         /\ pc \in {"parsed", "exec", "returned"} =>
              statements = <<VarDecStmt(NameA, None)>> \o Parsed(Flatten(ws))
         /\ pc = "exec" /\ frames = <<[stmts |-> statements, idx |-> 2]>> =>
              scopes = <<Insert(ScopeNew, NameA, Nil)>>

(***************************************************************************)
(* Parser and Interpreter properties of one expression, under SpecExpr     *)
(***************************************************************************)
SourceIs(text) == scanner.source_code = text
ParsedOk == pc = "expression" /\ result.status = "Ok"

\* the precedence level of a binary operator, loosest first
Level(type) ==
    CASE type \in {"BangEqual", "EqualEqual"} -> 1
      [] type \in {"Greater", "GreaterEqual", "Less", "LessEqual"} -> 2
      [] type \in {"Minus", "Plus"} -> 3
      [] type \in {"Slash", "Star"} -> 4
      [] OTHER -> 0

\* tighter levels are children of looser ones and one level nests to the left
RECURSIVE Conventional(_)
Conventional(e) ==
    CASE e.kind = "Binary" ->
           /\ Level(e.operator.type) > 0
           /\ e.left.kind # "Assign" /\ e.right.kind # "Assign"
           /\ e.left.kind = "Binary" =>
                 Level(e.left.operator.type) >= Level(e.operator.type)
           /\ e.right.kind = "Binary" =>
                 Level(e.right.operator.type) > Level(e.operator.type)
           /\ Conventional(e.left)
           /\ Conventional(e.right)
      [] e.kind = "Unary" ->
           /\ e.operator.type \in {"Bang", "Minus"}
           /\ e.expression.kind \in {"Unary", "Literal", "Variable", "Grouping"}
           /\ Conventional(e.expression)
      [] e.kind = "Grouping" -> Conventional(e.expression)
      [] e.kind = "Assign" -> Conventional(e.value)
      [] OTHER -> TRUE

\* the lexemes of a tree in text order, a Grouping giving back its parentheses
RECURSIVE InOrder(_)
InOrder(e) ==
    CASE e.kind = "Binary" ->
           InOrder(e.left) \o <<e.operator.lexeme>> \o InOrder(e.right)
      [] e.kind = "Unary" -> <<e.operator.lexeme>> \o InOrder(e.expression)
      [] e.kind = "Grouping" -> << <<"(">> >> \o InOrder(e.expression) \o << <<")">> >>
      [] e.kind = "Literal" -> <<e.token.lexeme>>
      [] e.kind = "Variable" -> <<e.var.lexeme>>
      [] e.kind = "Assign" -> <<e.lvar.lexeme, <<"=">> >> \o InOrder(e.value)

ConsumedLexemes == [i \in 1..parser.current |-> tokens[i].lexeme]

\* C11: the tree parse_expression returns is the conventional one: a binary
\* node's left child is of the same or a tighter level and its right child of
\* a tighter level (unary over * / over + - over comparison over equality, one
\* level nesting to the left), a unary operand is never a binary node,
\* parentheses give a Grouping, the tree read in order is the text consumed;
\* the text form of -1 * (-3 + 4) is (* (- 1) (grouping (+ (- 3) 4))) and that
\* of 1-2-3 is (- (- 1 2) 3).
C11_ConventionalTree ==
    ParsedOk =>
        /\ Conventional(statements[1])
        /\ InOrder(statements[1]) = ConsumedLexemes
        /\ SourceIs(TestSource) =>
              to_string(statements[1]) =
                  <<"(","*"," ","(","-"," ","1",")"," ","(","g","r","o","u","p",
                    "i","n","g"," ","(","+"," ","(","-"," ","3",")"," ","4",")",
                    ")",")">>
        /\ SourceIs(<<"1","-","2","-","3">>) =>
              to_string(statements[1]) =
                  <<"(","-"," ","(","-"," ","1"," ","2",")"," ","3",")">>

\* 1-2*3 is parsed: the term's right child is the factor
C11_Witness ==
    /\ ParsedOk
    /\ SourceIs(<<"1","-","2","*","3">>)
    /\ statements[1].kind = "Binary"
    /\ statements[1].operator.type = "Minus"
    /\ statements[1].right.kind = "Binary"
    /\ statements[1].right.operator.type = "Star"

\* parse_expression on the tokens of a text
ParseExprOf(text) == parse_expression(ParserNew(scan_tokens(text)))

\* C12: for a text `l = r` whose left side l is an expression without `=`,
\* parse_expression returns an Assign node exactly when l is a bare Variable
\* (the node then holds that variable's token and the tree of r); for every
\* other left side (1, (a), a+1, ...) it returns the ParseError and no tree.
C12_AssignOnlyToVariable ==
    \A l \in LeftSides, r \in RightSides :
        (pc = "expression" /\ SourceIs(l \o <<"=">> \o r)) =>
            \E L \in {ParseExprOf(l)} :
                (L.status = "Ok" /\ all_parsed(L.parser)) =>
                    IF L.value.kind = "Variable"
                    THEN /\ result.status = "Ok"
                         /\ statements[1] = AssignExpr(L.value.var, ParseExprOf(r).value)
                    ELSE /\ result.status = "Err"
                         /\ statements = <<>>

\* (a)=1 was parsed: the left side is a Grouping and the result the ParseError
C12_Witness ==
    /\ pc = "expression"
    /\ SourceIs(<<"(","a",")","=","1">>)
    /\ ParseExprOf(<<"(","a",")">>).value = GroupingExpr(VariableExpr(Ident("a")))
    /\ result.status = "Err"

Evaluated == pc = "evaluated"
\* the operands of the Binary node that was evaluated, evaluated on their own
LeftOperand == evaluate(statements[1].left, scopes)
RightOperand == evaluate(statements[1].right, scopes)
BinaryOfValues ==
    /\ Evaluated
    /\ statements[1].kind = "Binary"
    /\ LeftOperand.status = "Ok"
    /\ RightOperand.status = "Ok"

\* C13: evaluating a Binary `/` whose right operand is the Number zero fails
\* with the division-by-zero RuntimeError for every left value (Number,
\* String, Bool, Nil): neither a quotient nor the can-not-be-interpreted
\* error is returned.
C13_DivisionByZeroFirst ==
    (/\ BinaryOfValues
     /\ statements[1].operator.type = "Slash"
     /\ RightOperand.value = Num(0, 1))
        => /\ result.status = "Err"
           /\ result.err = DividedByZero

\* "s" / 0 was evaluated
C13_Witness ==
    /\ BinaryOfValues
    /\ SourceIs(<<"\"","s","\""," ","/"," ","0">>)
    /\ LeftOperand.value = Str(<<"s">>)
    /\ result.status = "Err"

\* the operand types and operator of the Binary node that was evaluated
NumberOperators ==
    {"Plus", "Minus", "Star", "Slash", "EqualEqual", "BangEqual",
     "Greater", "GreaterEqual", "Less", "LessEqual"}
AllowedOperands ==
    \/ /\ LeftOperand.value.t = "Num"
       /\ RightOperand.value.t = "Num"
       /\ statements[1].operator.type \in NumberOperators
    \/ /\ LeftOperand.value.t = "Str"
       /\ RightOperand.value.t = "Str"
       /\ statements[1].operator.type = "Plus"

\* C14: evaluating a Binary of two values succeeds only for two Numbers under
\* + - * / == != > >= < <= and for two Strings under +; every other
\* combination of operand types and operator fails with a RuntimeError and
\* yields no value.  (The allowed combinations yield a value except the
\* division by zero.)
C14_BinaryOnlyNumbersAndStringConcat ==
    BinaryOfValues =>
        /\ result.status = "Ok" => AllowedOperands
        /\ ~AllowedOperands => (result.status = "Err" /\ result.value = None)
        /\ (AllowedOperands /\ result.status # "Ok") =>
              /\ statements[1].operator.type = "Slash"
              /\ RightOperand.value = Num(0, 1)

\* "s" == "s" was evaluated and failed
C14_Witness ==
    /\ BinaryOfValues
    /\ SourceIs(<<"\"","s","\""," ","=","="," ","\"","s","\"">>)
    /\ LeftOperand.value.t = "Str"
    /\ RightOperand.value.t = "Str"
    /\ result.status = "Err"

\* truthiness as a table: zero and the empty string are false, a Bool is
\* itself, Nil and every other value are true
Truthiness(v) ==
    CASE v.t = "Num" -> v.n # 0
      [] v.t = "Str" -> Len(v.s) > 0
      [] v.t = "Bool" -> v.b
      [] v.t = "Nil" -> TRUE

\* the operand of the Unary node that was evaluated, evaluated on its own
UnaryOperand == evaluate(statements[1].expression, scopes)
InnerOperand == evaluate(statements[1].expression.expression, scopes)
BangOf(e) == e.kind = "Unary" /\ e.operator.type = "Bang"

\* C15: evaluating !v on a value v returns the Bool opposite to v's
\* truthiness, false for the Number zero and the empty String, the Bool
\* itself, true for Nil and everything else; !0 is true, !1 is false and !!v
\* is the truthiness of v.
C15_BangNegatesTruthiness ==
    /\ (Evaluated /\ BangOf(statements[1]) /\ UnaryOperand.status = "Ok") =>
          /\ result.status = "Ok"
          /\ result.value = Some(Bool(~Truthiness(UnaryOperand.value)))
    /\ (/\ Evaluated
        /\ BangOf(statements[1])
        /\ BangOf(statements[1].expression)
        /\ InnerOperand.status = "Ok") =>
          result.value = Some(Bool(Truthiness(InnerOperand.value)))
    /\ (Evaluated /\ SourceIs(<<"!","0">>)) => result.value = Some(Bool(TRUE))
    /\ (Evaluated /\ SourceIs(<<"!","1">>)) => result.value = Some(Bool(FALSE))

\* !!n was evaluated with n bound to Nil
C15_Witness ==
    /\ Evaluated
    /\ SourceIs(<<"!","!","n">>)
    /\ InnerOperand.status = "Ok"
    /\ InnerOperand.value = Nil
    /\ result.value = Some(Bool(TRUE))

\* the value a literal token stands for
LiteralValueOf(token) ==
    CASE token.type = "String" -> Str(token.lexeme)
      [] token.type = "Number" -> ParseF64(token.lexeme)[1]
      [] token.type = "True" -> Bool(TRUE)
      [] token.type = "False" -> Bool(FALSE)
      [] token.type = "Nil" -> Nil

\* C16: evaluating a Literal that primary accepted yields its value: Str for
\* a String token, Num for a Number, Bool for true and false, Nil for nil;
\* evaluate does not abort on any of them.
C16_EveryLiteralHasValue ==
    (Evaluated /\ statements[1].kind = "Literal") =>
        /\ result.status = "Ok"
        /\ result.value = Some(LiteralValueOf(statements[1].token))

(***************************************************************************)
(* Scanner properties of identifier runs, under SpecScan                   *)
(***************************************************************************)
\* src[i..j] starts with a letter or an underscore and continues with
\* alphanumeric characters
IsRun(src, i, j) ==
    /\ i <= j
    /\ src[i] \in Lower \cup Upper \cup {"_"}
    /\ \A k \in (i + 1)..j : src[k] \in Lower \cup Upper \cup Digits
\* the run can be extended neither to the right nor to the left
IsMaximalRun(src, i, j) ==
    /\ IsRun(src, i, j)
    /\ j < Len(src) => ~IsRun(src, i, j + 1)
    /\ \A h \in 1..(i - 1) : ~IsRun(src, h, j)
ReservedWords == {kw[2] : kw \in Keywords}
\* the one token of a run: keyword or Identifier, without its line
RunToken(run) ==
    IF run \in ReservedWords
    THEN [type |-> (CHOOSE kw \in Keywords : kw[2] = run)[1], lexeme |-> run]
    ELSE [type |-> "Identifier", lexeme |-> run]

\* C17: every maximal run outside a string that starts with a letter or an
\* underscore and continues with alphanumeric characters is scanned as exactly
\* one token, the keyword when the run is one of the sixteen reserved words,
\* else an Identifier with the run as lexeme: the tokens of the text are the
\* tokens of the text before the run, that token, the tokens of the text after.
C17_IdentifierRunOneToken ==
    pc = "scanned" =>
        \A i \in DOMAIN scanner.source_code, j \in DOMAIN scanner.source_code :
            LET src == scanner.source_code
                before == SubSeq(src, 1, i - 1)
                after == SubSeq(src, j + 1, Len(src))
            IN  (IsMaximalRun(src, i, j) /\ QuotesIn(before) % 2 = 0) =>
                    /\ Cardinality(ReservedWords) = 16
                    /\ StripLines(tokens) =
                          StripLines(WithoutEof(scan_tokens(before)))
                          \o <<RunToken(SubSeq(src, i, j))>>
                          \o StripLines(scan_tokens(after))

(***************************************************************************)
(* Environment::get and assign, under Spec                                 *)
(***************************************************************************)
\* the index of the innermost scope that defines x, 0 when none does
InnermostDefining(scs, x) ==
    IF \E i \in DOMAIN scs : x \in DOMAIN scs[i]
    THEN CHOOSE i \in DOMAIN scs :
            /\ x \in DOMAIN scs[i]
            /\ \A j \in (i + 1)..Len(scs) : x \notin DOMAIN scs[j]
    ELSE 0
\* execute on `print x;`
PrintVariableStep == ExecStatement /\ Stmt.kind = "Print" /\ Stmt.expr.kind = "Variable"

\* C18: lookup and assignment resolve a name to the same scope, the innermost
\* one that defines it: get yields that scope's value (a `print x;` writes
\* it), a successful assignment replaces the value in that scope only, every
\* other scope stays as it was, and the number of scopes does not change.
C18_GetAndAssignSameScope ==
    /\ [](\A x \in {NameA, NameB} :
            get(scopes, x) =
               IF InnermostDefining(scopes, x) = 0 THEN None
               ELSE Some(scopes[InnermostDefining(scopes, x)][x]))
    /\ [][(PrintVariableStep /\ InnermostDefining(scopes, Stmt.expr.var.lexeme) > 0) =>
            LET x == Stmt.expr.var.lexeme
                k == InnermostDefining(scopes, x)
            IN  /\ output' = Append(output, Display(scopes[k][x]))
                /\ scopes' = scopes]_vars
    /\ [][(AssignStep /\ pc' = "exec") =>
            LET x == Stmt.expr.lvar.lexeme
                k == InnermostDefining(scopes, x)
                v == evaluate(Stmt.expr.value, scopes).value
            IN  /\ k > 0
                /\ Len(scopes') = Len(scopes)
                /\ scopes'[k] = [scopes[k] EXCEPT ![x] = v]
                /\ \A i \in DOMAIN scopes : i # k => scopes'[i] = scopes[i]]_vars

\* `a = 2;` has just run in a block's scope under a block that declares a,
\* inside a global a: the middle a is 2, the global a still 1, the innermost
\* scope still without a
C18_Witness ==
    /\ pc = "exec"
    /\ Len(scopes) = 3
    /\ Top = [stmts |-> <<ExprStmt(AssignExpr(Ident("a"), NumberLit("2")))>>, idx |-> 2]
    /\ NameA \in DOMAIN scopes[1] /\ scopes[1][NameA] = Num(1, 1)
    /\ NameA \in DOMAIN scopes[2] /\ scopes[2][NameA] = Num(2, 1)
    /\ NameA \notin DOMAIN scopes[3]

(***************************************************************************)
(* Parser::synchronize and Parser::block, under SpecRun                    *)
(***************************************************************************)
\* C19: synchronize consumes at least one token unless the cursor is already
\* on the Eof token, never moves the cursor past the Eof token, and returns
\* only with the cursor on Eof, or with a semicolon as the last consumed
\* token, or with class, func, var, for, if, while, print or return as the
\* current token.
C19_SynchronizeStopsAtBoundary ==
    [][ParseSynchronize =>
         /\ parser'.tokens = parser.tokens
         /\ IF is_at_end(parser)
            THEN parser'.current = parser.current
            ELSE parser'.current > parser.current
         /\ parser'.current <= Len(parser.tokens) - 1
         /\ \/ parser'.tokens[parser'.current + 1].type = "Eof"
            \/ parser'.tokens[parser'.current].type = "Semicolon"
            \/ parser'.tokens[parser'.current + 1].type \in
                  {"Class", "Func", "Var", "For", "If", "While", "Print", "Return"}]_vars

\* on `1 1 print a;` the expression statement failed at the second 1 and
\* synchronize has consumed it and stopped in front of print
C19_Witness ==
    /\ pc = "parse"
    /\ SourceIs(<<"1"," ","1"," ","p","r","i","n","t"," ","a",";">>)
    /\ statements = <<>>
    /\ parser.current = 2
    /\ peek(parser).type = "Print"

\* `{` minus `}` among tokens i..j of toks
BraceDepth(toks, i, j) ==
    Cardinality({k \in i..j : toks[k].type = "LeftBrace"})
    - Cardinality({k \in i..j : toks[k].type = "RightBrace"})
\* tokens i..j start with `{` and end with the `}` that matches it
BracedRange(toks, i, j) ==
    /\ i < j
    /\ toks[i].type = "LeftBrace"
    /\ toks[j].type = "RightBrace"
    /\ BraceDepth(toks, i, j) = 0
    /\ \A k \in i..(j - 1) : BraceDepth(toks, i, k) > 0

\* C20: when declaration returns a Block statement, the tokens it consumed
\* start with `{` and end with the matching `}`; a block whose closing brace
\* is missing before the end of the input yields no Block statement.
C20_BlockNeedsClosingBrace ==
    [][(/\ ParseDeclaration
        /\ Len(statements') > Len(statements)
        /\ statements'[Len(statements')].kind = "Block")
          => BracedRange(parser.tokens, parser.current + 1, parser'.current)]_vars

(***************************************************************************)
(* Scanner::string, under SpecScan                                         *)
(***************************************************************************)
\* the index in src of the first `"` at or after index from, Len(src) + 1
\* when there is none
NextQuote(src, from) ==
    IF \E k \in from..Len(src) : src[k] = "\""
    THEN CHOOSE k \in from..Len(src) :
            src[k] = "\"" /\ \A h \in from..(k - 1) : src[h] # "\""
    ELSE Len(src) + 1
\* the scan_token call of this step starts on a `"`
StringStep == ScanStep /\ CharAt(scanner.source_code, scanner.current) = Some("\"")

\* C21: a scan_token call that starts on a `"` pushes one String token whose
\* lexeme is exactly the characters after the opening quote up to, and
\* excluding, the next `"` or the end of the text; the closing quote is
\* consumed and is not in the lexeme; an unterminated string holds the rest
\* of the text and leaves the cursor at the end, so Eof follows directly.
C21_StringLexemeIsSourceText ==
    [][StringStep =>
         LET src == scanner.source_code
             first == scanner.current + 2
             close == NextQuote(src, first)
         IN  /\ tokens' = Append(tokens, tokens'[Len(tokens')])
             /\ tokens'[Len(tokens')].type = "String"
             /\ tokens'[Len(tokens')].lexeme = SubSeq(src, first, close - 1)
             /\ scanner'.current = IF close <= Len(src) THEN close ELSE Len(src)]_vars

(***************************************************************************)
(* Parser::parse: termination and its end, under SpecRun                   *)
(***************************************************************************)
InParse == pc \in {"parse", "synchronize"}
\* what is left to do: two per token in front of the cursor up to Eof, one
\* more while a synchronize is pending
ParseMeasure ==
    2 * (Len(parser.tokens) - 1 - parser.current)
    + (IF pc = "synchronize" THEN 1 ELSE 0)

\* C22: parse terminates on every token sequence scan_tokens returns: while
\* parse runs the cursor never decreases and never passes Eof; every
\* declaration() call of the top-level loop that returns, Ok or Err,
\* strictly advances the cursor, and the synchronize that follows a failed
\* one never moves it back; from every position in front of Eof a successful
\* declaration(), as the block loop calls it, strictly advances the cursor;
\* there are never more statements than consumed tokens; and every step of
\* parse either leaves parse (its return, or the panic of a declaration()
\* call) or strictly decreases a measure that is never negative, so the
\* loop ends after at most as many iterations as there are tokens.
C22_ParseTerminates ==
    /\ [][InParse => /\ parser'.tokens = parser.tokens
                     /\ parser'.current >= parser.current
                     /\ parser'.current <= Len(parser.tokens) - 1]_vars
    /\ [][(ParseDeclaration /\ pc' \in {"parse", "synchronize"}) =>
            parser'.current > parser.current]_vars
    /\ [](pc = "parse" =>
            \A k \in 0..(Len(parser.tokens) - 2) :
               \E d \in {declaration([parser EXCEPT !.current = k])} :
                  d.status = "Ok" => d.parser.current > k)
    /\ [](InParse => Len(statements) <= parser.current)
    /\ [](InParse => ParseMeasure >= 0)
    /\ [][InParse => (~InParse' \/ ParseMeasure' < ParseMeasure)]_vars

\* parse of `1 1 print a;` has ended: one failed iteration with its
\* synchronize, one successful iteration, the cursor on Eof
C22_Witness ==
    /\ pc = "parsed"
    /\ SourceIs(<<"1"," ","1"," ","p","r","i","n","t"," ","a",";">>)
    /\ statements = <<PrintStmt(VariableExpr(Ident("a")))>>
    /\ parser.current = 5
    /\ is_at_end(parser)

\* C23: whenever parse has returned, the cursor stands on the Eof token, so
\* all_parsed is true and no token but Eof is left, whether the statements
\* were parsed or skipped by synchronize; run then goes on to its statement
\* loop without the ParseError, and what run returns after a completed parse
\* is Ok or a RuntimeError.
C23_ParseEndsOnEof ==
    /\ [](pc = "parsed" =>
            /\ peek(parser).type = "Eof"
            /\ all_parsed(parser)
            /\ parser.current + 1 = Len(parser.tokens))
    /\ [][RunAllParsed => (pc' = "exec" /\ result' = NoResult)]_vars
    /\ [](pc = "returned" => result.status \in {"Ok", "RuntimeError"})

\* run of `1 1 print b;` has returned: the first statement was skipped by
\* synchronize, parse ended on Eof, and executing `print b;` failed
C23_Witness ==
    /\ pc = "returned"
    /\ SourceIs(<<"1"," ","1"," ","p","r","i","n","t"," ","b",";">>)
    /\ statements = <<PrintStmt(VariableExpr(Ident("b")))>>
    /\ all_parsed(parser)
    /\ result = RunRuntimeError(UndefinedVariable)

(***************************************************************************)
(* One Environment across run calls, under Spec                            *)
(***************************************************************************)
\* C24: one Lox instance keeps a single Environment across run calls: the
\* start of a run call and the return of one, with Ok or with a RuntimeError,
\* leave every scope and so the value of every variable as it is; the global
\* scope never loses a name, and a global value changes only when a Var
\* statement or an assignment is executed.
C24_EnvironmentKeptAcrossRuns ==
    /\ [][Run => scopes' = scopes]_vars
    /\ [][pc' = "returned" =>
            /\ Len(scopes') >= 1
            /\ scopes'[1] = scopes[1]
            /\ \A x \in {NameA, NameB} : get(scopes', x) = get(scopes, x)]_vars
    /\ [][\A x \in DOMAIN scopes[1] :
            /\ x \in DOMAIN scopes'[1]
            /\ scopes'[1][x] # scopes[1][x] => (VarDeclStep \/ AssignStep)]_vars

\* a later run call prints the global a = 1 of an earlier one: the loop is
\* at run's top level and the scope left behind by an earlier run call that
\* failed inside a block (C1) is still on the stack
C24_Witness ==
    /\ pc = "exec"
    /\ Len(frames) = 1
    /\ Len(scopes) = 2
    /\ Top = [stmts |-> <<PrintStmt(VariableExpr(Ident("a")))>>, idx |-> 2]
    /\ NameA \in DOMAIN scopes[1] /\ scopes[1][NameA] = Num(1, 1)
    /\ NameA \notin DOMAIN scopes[2]
    /\ output = <<Display(Num(1, 1))>>

====
